---- MODULE Spec2Model ----
(***************************************************************************)
(* A model of the stock screener: exchange discovery with its detail cache *)
(* and call budget (src/src/exchange_data.py), the rating document         *)
(* retrieval protocol (src/src/stock_ratings.py) and the ratings           *)
(* collection loop over the durable store (src/src/ratings_collector.py). *)
(*                                                                         *)
(* Eight specifications share the module:                                  *)
(*   SpecExchange   get_stock_details called as time passes                *)
(*   SpecEligible   get_eligible_stocks over what the exchange lists       *)
(*   SpecMarketCap  get_market_cap / filter_by_market_cap on one blob      *)
(*   SpecRetrieve   get_rating_page_text                                   *)
(*   SpecCollect    collect_ratings                                        *)
(*   SpecRace       two collect_ratings runs over one ratings.txt          *)
(*   SpecWriters    two _save_to_cache writers over one cache file         *)
(*   SpecRateLimit  BaseExchange._rate_limit (src/src/utils/__init__.py)   *)
(***************************************************************************)
EXTENDS Integers, Sequences, FiniteSets, TLC

VARIABLES
    \* ---- ExchangeDataCollector -------------------------------------------
    cache_file,        \* stock_details_cache.json on disk
    cache_mtime,       \* os.path.getmtime(cache_file), in days
    api_calls_count,   \* self.api_calls_count
    now,               \* the wall clock, in days
    requests_sent,     \* detail HTTP requests put on the wire in this process run
    last_call,         \* the most recent get_stock_details call
    prev_call,         \* the get_stock_details call before last_call
    listing_response,  \* the entries the listing endpoint serves
    ncalls,            \* number of get_stock_details calls so far
    ex_pc,             \* position of get_eligible_stocks: idle / loop / raised
    symbols,           \* get_eligible_stocks: the symbols still to visit
    eligible_stocks,   \* get_eligible_stocks: the rows appended so far
    eligible_result,   \* the rows of the last DataFrame get_eligible_stocks returned
    discovery,         \* get_eligible_stocks: the priming calls, the listing request
    mc_input,          \* filter_by_market_cap: its argument stock_data
    mc_out,            \* what get_market_cap and filter_by_market_cap made of it
    \* ---- StockRatingsAnalyzer --------------------------------------------
    rt_link,           \* get_rating_page_text: its argument rating_link
    rt_env,            \* what the network, the browser and the PDF parser gave it
    rt_call,           \* what it did: stages invoked, locals, failure, result
    \* ---- RatingsCollector ------------------------------------------------
    ratings_file,      \* ratings.txt on disk
    rc_input,          \* the eligible_stocks frame collect_ratings is run on
    rc_run,            \* which run this is: "first", then "second" on the same frame
    rc_pc,             \* position of collect_ratings: idle / loop / done / raised
    rc_todo,           \* collect_ratings: the rows still to visit
    rc_iter,           \* what the last loop iteration did
    rc_clean,          \* no read, link, retrieval or write failure so far
    \* ---- concurrent collect_ratings runs --------------------------------
    cc_pc,             \* per run: idle / check / fetch / done / raised
    cc_todo,           \* per run: the rows still to visit
    cc_ran,            \* the runs that were started
    cc_read_err,       \* some _is_stock_rated call could not read the store
    \* ---- concurrent _save_to_cache calls --------------------------------
    cw_pc,             \* per writer: idle / loaded (between json.load and json.dump)
    cw_symbol,         \* per writer: the symbol being saved
    cw_local,          \* per writer: cache_data, the document it loaded
    cw_saved,          \* per symbol: the entry its last completed save wrote
    cw_ran,            \* the writers that have called _save_to_cache
    cw_nsaves,         \* number of _save_to_cache calls so far
    \* ---- BaseExchange ---------------------------------------------------
    rl_clock,          \* time.time(), in ticks
    last_request_time, \* self.last_request_time, in ticks
    rl_prev,           \* last_request_time as the call before recorded it
    rl_ncalls,         \* number of _rate_limit calls so far
    rl_slept           \* how long the last _rate_limit call slept, in ticks

ex_vars == <<cache_file, cache_mtime, api_calls_count, now, requests_sent, last_call,
             prev_call, listing_response, ncalls, ex_pc, symbols, eligible_stocks,
             eligible_result, discovery>>
mc_vars == <<mc_input, mc_out>>
rt_vars == <<rt_link, rt_env, rt_call>>
rc_vars == <<ratings_file, rc_input, rc_run, rc_pc, rc_todo, rc_iter, rc_clean>>
cc_vars == <<cc_pc, cc_todo, cc_ran, cc_read_err>>
cw_vars == <<cw_pc, cw_symbol, cw_local, cw_saved, cw_ran, cw_nsaves>>
rl_vars == <<rl_clock, last_request_time, rl_prev, rl_ncalls, rl_slept>>
vars == <<ex_vars, mc_vars, rt_vars, rc_vars, cc_vars, cw_vars, rl_vars>>

(***************************************************************************)
(* Bounds of the model.                                                    *)
(***************************************************************************)
MaxTime == 3
MaxCalls == 3
MaxListing == 3
MaxPages == 2
MaxRows == 2

(***************************************************************************)
(* Program constants.                                                      *)
(***************************************************************************)
BudgetCeiling == 2
TTL_DAYS == 2
MIN_CAP == 100
MAX_CAP == 10000
CRORE == 10000000

(***************************************************************************)
(* Detail blobs: the JSON document the quote endpoint returns.             *)
(* A scalar field is missing, null, a non-numeric string or a number; a    *)
(* number n is held as hi * CRORE + lo so that price * size stays inside   *)
(* 32-bit integer range.  A container (priceInfo, securityInfo) is         *)
(* missing, null, not a mapping, or a mapping holding one scalar.          *)
(***************************************************************************)
Missing == [t |-> "missing", hi |-> 0, lo |-> 0]
Null == [t |-> "null", hi |-> 0, lo |-> 0]
Str == [t |-> "str", hi |-> 0, lo |-> 0]
Num(hi, lo) == [t |-> "num", hi |-> hi, lo |-> lo]

NoMap == [t |-> "missing", f |-> Missing]
NullMap == [t |-> "null", f |-> Missing]
NotAMap == [t |-> "notmap", f |-> Missing]      \* a string, a number, a list
Map(f) == [t |-> "map", f |-> f]

\* {} : the empty JSON object (falsy in Python)
EmptyBlob == [empty |-> TRUE, priceInfo |-> NoMap, securityInfo |-> NoMap]
Detail(p, n) == [empty |-> FALSE, priceInfo |-> Map(p), securityInfo |-> Map(n)]

Blobs ==
    { EmptyBlob,
      Detail(Num(0, 100), Num(0, 600000)),      \* 6 crores
      Detail(Num(0, 100), Num(1, 0)),           \* 100 crores: the lower bound
      Detail(Num(0, 99), Num(1, 0)),            \* 99 crores
      Detail(Num(0, 100), Num(100, 0)),         \* 10000 crores: the upper bound
      Detail(Num(0, 100), Num(100, 1)),         \* 10000.00001 crores
      Detail(Str, Num(1, 0)),                   \* lastPrice not numeric
      [empty |-> FALSE, priceInfo |-> NullMap, securityInfo |-> Map(Num(1, 0))] }

Truthy(blob) == ~blob.empty

ExSymbols == {"A", "B"}

(***************************************************************************)
(* The cache file: absent, unreadable (not a JSON document), or one JSON   *)
(* object mapping a symbol to {timestamp, data}.                           *)
(***************************************************************************)
NoEntry == [present |-> FALSE, timestamp |-> 0, data |-> EmptyBlob]
NoEntries == [s \in ExSymbols |-> NoEntry]
CacheAbsent == [kind |-> "absent", entries |-> NoEntries]
CacheCorrupt == [kind |-> "corrupt", entries |-> NoEntries]
CacheJson(entries) == [kind |-> "json", entries |-> entries]

\* _get_from_cache without the age test.
get_from_cache_no_ttl(file, symbol, t) ==
    IF file.kind # "json" THEN EmptyBlob
    ELSE IF ~file.entries[symbol].present THEN EmptyBlob
    ELSE file.entries[symbol].data

\* _get_from_cache: {} when the file is absent, when reading it raises, when
\* the symbol has no entry and when the entry is older than the TTL.
get_from_cache(file, symbol, t) ==
    IF file.kind = "absent" THEN EmptyBlob
    ELSE IF file.kind = "corrupt" THEN EmptyBlob
    ELSE LET stock_cache == file.entries[symbol]
         IN  IF ~stock_cache.present THEN EmptyBlob
             ELSE IF t - stock_cache.timestamp > TTL_DAYS THEN EmptyBlob
             ELSE stock_cache.data

\* _save_to_cache writing a document that holds the new entry only, without
\* loading the file first.
save_to_cache_overwrite(file, symbol, data, t) ==
    IF file.kind = "corrupt" THEN file
    ELSE CacheJson([NoEntries EXCEPT
                      ![symbol] = [present |-> TRUE, timestamp |-> t, data |-> data]])

\* _save_to_cache: read-modify-write of the whole document; json.load of an
\* unreadable file raises, the handler logs and nothing is written.
save_to_cache(file, symbol, data, t) ==
    IF file.kind = "corrupt" THEN file
    ELSE CacheJson([file.entries EXCEPT
                      ![symbol] = [present |-> TRUE, timestamp |-> t, data |-> data]])

\* Whether a get_stock_details call that ended by path kind rewrote the file
\* (json.dump at the end of _save_to_cache), which sets its modification time.
cache_written(file, kind) == kind = "fetched" /\ file.kind # "corrupt"

(***************************************************************************)
(* What the quote endpoint does with one request.                          *)
(***************************************************************************)
Outcomes(blobs) ==
    { [k |-> "neterr", b |-> EmptyBlob],      \* transport error or HTTP error status
      [k |-> "badjson", b |-> EmptyBlob] }    \* 200, body is not JSON
    \cup { [k |-> "ok", b |-> b] : b \in blobs }
DetailOutcomes == Outcomes(Blobs)
\* For the claims about the cache and the budget a payload is empty or not.
CallOutcomes == Outcomes({EmptyBlob, Detail(Num(0, 100), Num(1, 0))})

\* get_stock_details with the budget test off by one (count > ceiling).
get_stock_details_off_by_one(file, count, symbol, t, o) ==
    LET cached_data == get_from_cache(file, symbol, t)
    IN  IF Truthy(cached_data)
        THEN [file |-> file, count |-> count, sent |-> 0, ret |-> cached_data,
              kind |-> "hit"]
        ELSE IF count > BudgetCeiling
        THEN [file |-> file, count |-> count, sent |-> 0, ret |-> EmptyBlob,
              kind |-> "blocked"]
        ELSE IF o.k = "neterr"
        THEN [file |-> file, count |-> count, sent |-> 1, ret |-> EmptyBlob,
              kind |-> "neterr"]
        ELSE IF o.k = "badjson"
        THEN [file |-> file, count |-> count + 1, sent |-> 1, ret |-> EmptyBlob,
              kind |-> "badjson"]
        ELSE [file |-> save_to_cache(file, symbol, o.b, t), count |-> count + 1,
              sent |-> 1, ret |-> o.b, kind |-> "fetched"]

\* get_stock_details: the new cache file and counter, whether a request went
\* out (sent), what the call returned (ret) and by which path (kind).
get_stock_details(file, count, symbol, t, o) ==
    LET cached_data == get_from_cache(file, symbol, t)
    IN  IF Truthy(cached_data)
        THEN [file |-> file, count |-> count, sent |-> 0, ret |-> cached_data,
              kind |-> "hit"]
        ELSE IF count >= BudgetCeiling
        THEN [file |-> file, count |-> count, sent |-> 0, ret |-> EmptyBlob,
              kind |-> "blocked"]
        ELSE IF o.k = "neterr"
        THEN [file |-> file, count |-> count, sent |-> 1, ret |-> EmptyBlob,
              kind |-> "neterr"]
        ELSE IF o.k = "badjson"
        THEN [file |-> file, count |-> count + 1, sent |-> 1, ret |-> EmptyBlob,
              kind |-> "badjson"]
        ELSE [file |-> save_to_cache(file, symbol, o.b, t), count |-> count + 1,
              sent |-> 1, ret |-> o.b, kind |-> "fetched"]

(***************************************************************************)
(* Market capitalisation, in crores, as a fixed-point decimal              *)
(* whole + frac / CRORE.                                                   *)
(***************************************************************************)
Fixed(n) == [whole |-> n, frac |-> 0]
Le(a, b) == a.whole < b.whole \/ (a.whole = b.whole /\ a.frac <= b.frac)

\* float(container.get(field, 0)): "attr" when the container is not a mapping
\* (AttributeError, which get_market_cap does not catch), "caught" for the
\* TypeError / ValueError that it does, else the number.
ReadFloat(container) ==
    IF container.t = "missing" THEN [st |-> "ok", v |-> Num(0, 0)]
    ELSE IF container.t # "map" THEN [st |-> "attr", v |-> Num(0, 0)]
    ELSE IF container.f.t = "missing" THEN [st |-> "ok", v |-> Num(0, 0)]
    ELSE IF container.f.t = "num" THEN [st |-> "ok", v |-> container.f]
    ELSE [st |-> "caught", v |-> Num(0, 0)]

\* get_market_cap: (last_price * issued_size) / 10000000; 0 on a caught error;
\* raised when the AttributeError escapes.  Prices are below CRORE (hi = 0).
get_market_cap(stock_data) ==
    LET last_price == ReadFloat(stock_data.priceInfo)
        issued_size == ReadFloat(stock_data.securityInfo)
        p == last_price.v.lo
        n == issued_size.v
    IN  IF last_price.st = "attr" THEN [raised |-> TRUE, whole |-> 0, frac |-> 0]
        ELSE IF last_price.st = "caught" THEN [raised |-> FALSE, whole |-> 0, frac |-> 0]
        ELSE IF issued_size.st = "attr" THEN [raised |-> TRUE, whole |-> 0, frac |-> 0]
        ELSE IF issued_size.st = "caught" THEN [raised |-> FALSE, whole |-> 0, frac |-> 0]
        ELSE [raised |-> FALSE,
              whole |-> p * n.hi + ((p * n.lo) \div CRORE),
              frac |-> (p * n.lo) % CRORE]

\* filter_by_market_cap without its upper bound.
filter_by_market_cap_no_max(stock_data) ==
    Le(Fixed(MIN_CAP), get_market_cap(stock_data))

\* filter_by_market_cap with both bounds exclusive.
filter_by_market_cap_exclusive(stock_data) ==
    LET market_cap == get_market_cap(stock_data)
    IN  ~Le(market_cap, Fixed(MIN_CAP)) /\ ~Le(Fixed(MAX_CAP), market_cap)

\* filter_by_market_cap: min_cap <= market_cap <= max_cap
filter_by_market_cap(stock_data) ==
    LET market_cap == get_market_cap(stock_data)
    IN  Le(Fixed(MIN_CAP), market_cap) /\ Le(market_cap, Fixed(MAX_CAP))

(***************************************************************************)
(* Text.  A string is the sequence of its pieces: single characters for    *)
(* page text, '/' and slash-free chunks for URLs, lines and line breaks    *)
(* for the durable store.  None is the absent value.                       *)
(***************************************************************************)
None == [none |-> TRUE, s |-> <<>>]
Text(s) == [none |-> FALSE, s |-> s]
\* Python truthiness of an optional string: neither None nor ''.
Populated(x) == ~x.none /\ x.s # <<>>

RECURSIVE Join(_, _)
\* sep.join(parts)
Join(parts, sep) ==
    IF parts = <<>> THEN <<>>
    ELSE IF Len(parts) = 1 THEN parts[1]
    ELSE parts[1] \o sep \o Join(Tail(parts), sep)

RECURSIVE Split(_, _)
\* s.split(sep) for a non-empty separator: at least one part, scanning from
\* the left for non-overlapping occurrences.
Split(s, sep) ==
    LET n == Len(sep)
        hits == { i \in 1..(Len(s) - n + 1) : SubSeq(s, i, i + n - 1) = sep }
    IN  IF hits = {} THEN << s >>
        ELSE LET i == CHOOSE h \in hits : \A g \in hits : h <= g
             IN  << SubSeq(s, 1, i - 1) >> \o Split(SubSeq(s, i + n, Len(s)), sep)

\* s.splitlines(): like split on the line break, without the empty last line.
SplitLines(s) ==
    LET parts == Split(s, <<"\n">>)
    IN  IF parts[Len(parts)] = <<>> THEN SubSeq(parts, 1, Len(parts) - 1) ELSE parts

IsSpace(c) == c \in {" ", "\n"}

RECURSIVE LStrip(_)
LStrip(s) == IF s # <<>> /\ IsSpace(Head(s)) THEN LStrip(Tail(s)) ELSE s
RECURSIVE RStrip(_)
RStrip(s) ==
    IF s # <<>> /\ IsSpace(s[Len(s)]) THEN RStrip(SubSeq(s, 1, Len(s) - 1)) ELSE s
\* s.strip()
Strip(s) == LStrip(RStrip(s))

RECURSIVE StripAll(_)
StripAll(parts) ==
    IF parts = <<>> THEN <<>> ELSE << Strip(Head(parts)) >> \o StripAll(Tail(parts))

RECURSIVE Phrases(_)
\* phrase.strip() for line in lines for phrase in line.split("  ")
Phrases(lines) ==
    IF lines = <<>> THEN <<>>
    ELSE StripAll(Split(Head(lines), <<" ", " ">>)) \o Phrases(Tail(lines))

\* ' '.join(chunk for chunk in chunks if chunk) over the stripped lines
normalize_page_text(text) ==
    Join(SelectSeq(Phrases(StripAll(SplitLines(text))), LAMBDA chunk : chunk # <<>>),
         <<" ">>)

\* s contains sub
Contains(s, sub) ==
    \E i \in 1..(Len(s) - Len(sub) + 1) : SubSeq(s, i, i + Len(sub) - 1) = sub

RECURSIVE SeqsUpTo(_, _)
\* The sequences over S of length at most n.
SeqsUpTo(S, n) ==
    IF n = 0 THEN { <<>> }
    ELSE LET shorter == SeqsUpTo(S, n - 1)
         IN  shorter \cup { Append(q, x) : q \in shorter, x \in S }

(***************************************************************************)
(* StockRatingsAnalyzer.get_rating_page_text                               *)
(***************************************************************************)
\* A Content-Type header value, as its pieces; "" is the header's default.
ContentTypes ==
    { <<"application/pdf">>, <<"Application/PDF">>,
      <<"application/pdf", "; charset=binary">>,
      <<"text/html">>, <<"text/html", "; charset=utf-8">>, <<>> }

LowerPiece(piece) == IF piece = "Application/PDF" THEN "application/pdf" ELSE piece
\* The test without .lower() and as an equality.
is_pdf_exact(content_type) == content_type = <<"application/pdf">>

\* 'application/pdf' in content_type.lower()
is_pdf(content_type) ==
    Contains([i \in 1..Len(content_type) |-> LowerPiece(content_type[i])],
             <<"application/pdf">>)

\* A response: a transport error or error status (RequestException), or 200
\* with a Content-Type.
Responses ==
    { [k |-> "neterr", ctype |-> <<>>] }
    \cup { [k |-> "ok", ctype |-> ct] : ct \in ContentTypes }

\* What pdfplumber makes of a body: it cannot open it, or pages whose
\* extract_text() is a string (possibly '') or None.
PageTexts == { Text(<<"p">>), Text(<<"q">>), Text(<<>>), None }
NoDoc == [opens |-> FALSE, pages |-> <<>>]
Docs == { NoDoc } \cup { [opens |-> TRUE, pages |-> q] : q \in SeqsUpTo(PageTexts, MaxPages) }

RECURSIVE concat_pages(_)
\* pdf_text = ""; for page in pdf.pages: pdf_text += page.extract_text() + "\n"
\* (None + "\n" raises TypeError)
concat_pages(pages) ==
    IF pages = <<>> THEN [raised |-> FALSE, s |-> <<>>]
    ELSE IF Head(pages).none THEN [raised |-> TRUE, s |-> <<>>]
    ELSE LET rest == concat_pages(Tail(pages))
         IN  [raised |-> rest.raised, s |-> Head(pages).s \o <<"\n">> \o rest.s]

extract_pdf_text(doc) ==
    IF ~doc.opens THEN [raised |-> TRUE, s |-> <<>>] ELSE concat_pages(doc.pages)

\* A rendered page: its nodes in document order, and the pdf_holder div.
\* frame "nodiv": no div; "noiframe": a div without iframe; "nosrc": an iframe
\* without src; "src": an iframe whose src is the URL src.
Node(tag, text) == [tag |-> tag, text |-> text]
NodeLists ==
    { <<>>,
      << Node("script", <<"j">>) >>,
      << Node("p", <<" ", "\n", " ">>) >>,
      << Node("p", <<"a">>) >>,
      << Node("style", <<"c">>), Node("p", <<"a", " ", " ", "b">>) >>,
      << Node("p", <<" ", "a", " ", "\n">>), Node("script", <<"j">>),
         Node("p", <<"b", " ", " ", " ", "c">>) >> }

Frame(kind, src) == [kind |-> kind, src |-> src]
Frames ==
    { Frame("nodiv", <<>>), Frame("noiframe", <<>>), Frame("nosrc", <<>>),
      Frame("src", <<"/", "Rating", "/", "ShowRationalReportFilePdf", "/", "7">>),
      Frame("src", <<"https:", "/", "/", "www.crisil.com", "/", "Rating", "/",
                     "ShowRationalReportFilePdf", "/", "7">>),
      Frame("src", <<"https:", "/", "/", "cdn.example", "/", "r.pdf">>),
      Frame("src", <<"/", "docs", "/", "r.pdf">>),
      Frame("src", <<"docs", "/", "r.pdf">>) }

Renders ==
    { [k |-> "launch_err", nodes |-> <<>>, frame |-> Frame("nodiv", <<>>)],
      [k |-> "goto_err", nodes |-> <<>>, frame |-> Frame("nodiv", <<>>)] }
    \cup { [k |-> "ok", nodes |-> n, frame |-> f] : n \in NodeLists, f \in Frames }

RECURSIVE get_text(_)
\* soup.get_text() after decomposing every script and style element
get_text(nodes) ==
    IF nodes = <<>> THEN <<>>
    ELSE IF Head(nodes).tag \in {"script", "style"} THEN get_text(Tail(nodes))
    ELSE Head(nodes).text \o get_text(Tail(nodes))

RatingLinks ==
    { <<"https:", "/", "/", "www.crisil.com", "/", "ratings", "/", "1">>,
      <<"https:", "/", "/", "www.screener.in", "/", "doc.pdf">> }

\* pdf_url.startswith('http')
StartsWithHttp(url) == url # <<>> /\ url[1] \in {"http:", "https:"}

ViewerPattern == <<"/", "Rating", "/", "ShowRationalReportFilePdf", "/">>
DownloadTemplate == <<"/", "Rating", "/", "GetRationalReportFilePdf?Id=">>

\* The URL of the embedded PDF: the frame's src, rewritten when it is a report
\* viewer URL, prefixed with the rating link's first three '/'-parts when it
\* does not start with 'http'; None without a src.
embedded_pdf_url(frame, rating_link) ==
    IF frame.kind # "src" \/ frame.src = <<>> THEN None
    ELSE LET parts == Split(frame.src, <<"/">>)
             rewritten == IF Contains(frame.src, ViewerPattern)
                          THEN DownloadTemplate \o parts[Len(parts)]
                          ELSE frame.src
             link_parts == Split(rating_link, <<"/">>)
             base_url == Join(SubSeq(link_parts, 1,
                                     IF Len(link_parts) < 3 THEN Len(link_parts) ELSE 3),
                              <<"/">>)
         IN  IF StartsWithHttp(rewritten) THEN Text(rewritten)
             ELSE Text(base_url \o rewritten)

\* How a call ends: it returns None, it returns a result, or an exception
\* leaves it (raised).
RNone == [none |-> TRUE, raised |-> FALSE, page_text |-> None, pdf_text |-> None]
Result(page_text, pdf_text) ==
    [none |-> FALSE, raised |-> FALSE, page_text |-> page_text, pdf_text |-> pdf_text]
Raised == [none |-> TRUE, raised |-> TRUE, page_text |-> None, pdf_text |-> None]

\* The handlers of get_rating_page_text with only the first one.
except_handler_requests_only(exc) ==
    IF exc = "RequestException" THEN RNone ELSE Raised

\* The handlers of get_rating_page_text: except RequestException, then except
\* Exception, both returning None.  exc is "RequestException" for a failed
\* request, "Exception" for what the browser, pdfplumber or str + None raise.
except_handler(exc) ==
    IF exc = "RequestException" THEN RNone
    ELSE IF exc = "Exception" THEN RNone
    ELSE Raised
Did(stages, fail, page_text, pdf_url, result) ==
    [stages |-> stages, fail |-> fail, page_text |-> page_text, pdf_url |-> pdf_url,
     result |-> result]

\* get_rating_page_text falling back to the page text when the embedded PDF
\* request fails.
get_rating_page_text_partial(rating_link, e) ==
    IF e.r1.k = "neterr"
    THEN Did(<<"request">>, "request", None, None, RNone)
    ELSE IF is_pdf(e.r1.ctype)
    THEN LET pdf == extract_pdf_text(e.doc1)
         IN  IF pdf.raised
             THEN Did(<<"request", "pdf_parse">>, "parse", None, None, RNone)
             ELSE Did(<<"request", "pdf_parse">>, "", None, None,
                      Result(None, Text(pdf.s)))
    ELSE IF e.b.k # "ok"
    THEN Did(<<"request", "render">>, "render", None, None, RNone)
    ELSE LET page_text == Text(normalize_page_text(get_text(e.b.nodes)))
             pdf_url == embedded_pdf_url(e.b.frame, rating_link)
         IN  IF pdf_url.none
             THEN Did(<<"request", "render">>, "", page_text, None,
                      Result(page_text, None))
             ELSE IF e.r2.k = "neterr" \/ ~is_pdf(e.r2.ctype)
             THEN Did(<<"request", "render", "pdf_fetch">>, "pdf_fetch", page_text,
                      pdf_url, Result(page_text, None))
             ELSE LET pdf == extract_pdf_text(e.doc2)
                  IN  IF pdf.raised
                      THEN Did(<<"request", "render", "pdf_fetch", "pdf_parse">>,
                               "parse", page_text, pdf_url, RNone)
                      ELSE Did(<<"request", "render", "pdf_fetch", "pdf_parse">>, "",
                               page_text, pdf_url, Result(page_text, Text(pdf.s)))

\* get_rating_page_text returning None whenever the embedded PDF is not had,
\* a response of another content type included.
get_rating_page_text_strict(rating_link, e) ==
    LET d == get_rating_page_text_partial(rating_link, e)
    IN  IF d.fail = "pdf_fetch" THEN [d EXCEPT !.result = RNone] ELSE d

\* get_rating_page_text(rating_link) with e.r1 the answer to the first request,
\* e.doc1 its body as a PDF, e.b the browser's rendering, e.r2 the answer to
\* the embedded PDF request and e.doc2 its body as a PDF.
get_rating_page_text(rating_link, e) ==
    IF e.r1.k = "neterr"
    THEN Did(<<"request">>, "request", None, None,
             except_handler("RequestException"))
    ELSE IF is_pdf(e.r1.ctype)
    THEN LET pdf == extract_pdf_text(e.doc1)
         IN  IF pdf.raised
             THEN Did(<<"request", "pdf_parse">>, "parse", None, None,
                      except_handler("Exception"))
             ELSE Did(<<"request", "pdf_parse">>, "", None, None,
                      Result(None, Text(pdf.s)))
    ELSE IF e.b.k # "ok"
    THEN Did(<<"request", "render">>, "render", None, None,
             except_handler("Exception"))
    ELSE LET page_text == Text(normalize_page_text(get_text(e.b.nodes)))
             pdf_url == embedded_pdf_url(e.b.frame, rating_link)
         IN  IF pdf_url.none
             THEN Did(<<"request", "render">>, "", page_text, None,
                      Result(page_text, None))
             ELSE IF e.r2.k = "neterr"
             THEN Did(<<"request", "render", "pdf_fetch">>, "pdf_fetch", page_text,
                      pdf_url, except_handler("RequestException"))
             ELSE IF ~is_pdf(e.r2.ctype)
             THEN Did(<<"request", "render", "pdf_fetch">>, "content_type", page_text,
                      pdf_url, Result(page_text, None))
             ELSE LET pdf == extract_pdf_text(e.doc2)
                  IN  IF pdf.raised
                      THEN Did(<<"request", "render", "pdf_fetch", "pdf_parse">>,
                               "parse", page_text, pdf_url, except_handler("Exception"))
                      ELSE Did(<<"request", "render", "pdf_fetch", "pdf_parse">>, "",
                               page_text, pdf_url, Result(page_text, Text(pdf.s)))

\* The environments of one call; what the call does not consume is left at a
\* default (a transport error, an unopenable body, a browser that fails).
NoResponse == [k |-> "neterr", ctype |-> <<>>]
NoRender == [k |-> "launch_err", nodes |-> <<>>, frame |-> Frame("nodiv", <<>>)]
Env(r1, doc1, b, r2, doc2) == [r1 |-> r1, doc1 |-> doc1, b |-> b, r2 |-> r2, doc2 |-> doc2]
PdfResponses == { r \in Responses : r.k = "ok" /\ is_pdf(r.ctype) }
PageResponses == { r \in Responses : r.k = "ok" /\ ~is_pdf(r.ctype) }
FramedRenders == { b \in Renders : b.k = "ok" /\ b.frame.kind = "src" }
RtEnvs ==
    { Env(NoResponse, NoDoc, NoRender, NoResponse, NoDoc) }
    \cup { Env(r1, doc1, NoRender, NoResponse, NoDoc) : r1 \in PdfResponses, doc1 \in Docs }
    \cup { Env(r1, NoDoc, b, NoResponse, NoDoc) :
             r1 \in PageResponses, b \in Renders \ FramedRenders }
    \cup { Env(r1, NoDoc, b, r2, NoDoc) :
             r1 \in PageResponses, b \in FramedRenders, r2 \in Responses \ PdfResponses }
    \cup { Env(r1, NoDoc, b, r2, doc2) :
             r1 \in PageResponses, b \in FramedRenders, r2 \in PdfResponses,
             doc2 \in Docs }

NotCalled == Did(<<>>, "", None, None, RNone)

\* No get_rating_page_text call has been made.
RtIdle ==
    /\ rt_link = <<>>
    /\ rt_env = Env(NoResponse, NoDoc, NoRender, NoResponse, NoDoc)
    /\ rt_call = NotCalled

(***************************************************************************)
(* ExchangeDataCollector as a state machine.                               *)
(***************************************************************************)
NoCall == [valid |-> FALSE, symbol |-> "A", time |-> 0, kind |-> "none", sent |-> 0,
           ret |-> EmptyBlob, count_before |-> 0, count_after |-> 0]

\* The state a process run can start in: the counter is 0 (__init__), the
\* cache file is whatever an earlier run left on disk.
InitCaches ==
    { CacheAbsent, CacheCorrupt,
      CacheJson([NoEntries EXCEPT
                   !["A"] = [present |-> TRUE, timestamp |-> 0,
                             data |-> Detail(Num(0, 100), Num(1, 0))]]) }

\* The modification time of that file: the time of its last write, which is
\* the newest timestamp in it, or an older time when the file was put back
\* with its modification time preserved or set (os.utime, a restore, a
\* server clock behind the local one).
InitMtimes(file) == IF file.kind = "json" THEN {0, 0 - (TTL_DAYS + 1)} ELSE {0}

(***************************************************************************)
(* RatingsCollector: ratings.txt and collect_ratings.                      *)
(***************************************************************************)
NoFile == [exists |-> FALSE, content |-> <<>>]
File(content) == [exists |-> TRUE, content |-> content]

RcSymbols == { <<"A", "B">>, <<"A", "B", "C">> }
\* A row of the eligible_stocks frame.
Row(symbol) == [symbol |-> symbol, company_name |-> <<"Co ">> \o symbol,
                market_cap |-> <<"250.0">>]
InputFrames == SeqsUpTo({ Row(x) : x \in RcSymbols }, MaxRows)

\* The marker _is_stock_rated looks for: f"Stock: {symbol}"
Marker(symbol) == <<"Stock: ">> \o symbol

\* _is_stock_rated looking for a whole line "Stock: SYMBOL".
is_stock_rated_whole_line(file, symbol, read) ==
    IF ~file.exists THEN FALSE
    ELSE IF read = "err" THEN FALSE
    ELSE Contains(file.content, <<"Stock: ">> \o symbol \o <<"\n">>)

\* _is_stock_rated looking for "Stock:SYMBOL", without the space.
is_stock_rated_no_space(file, symbol, read) ==
    IF ~file.exists THEN FALSE
    ELSE IF read = "err" THEN FALSE
    ELSE Contains(file.content, <<"Stock:">> \o symbol)

\* _is_stock_rated: False without a file and when reading it raises, else
\* whether the marker occurs anywhere in the content.
is_stock_rated(file, symbol, read) ==
    IF ~file.exists THEN FALSE
    ELSE IF read = "err" THEN FALSE
    ELSE Contains(file.content, Marker(symbol))

Separator == <<"====">>      \* '=' * 80
Dashes == <<"----">>         \* '-' * 80
Timestamp == <<"ts">>      \* datetime.now().strftime(...)

\* The pieces save_ratings writes, in order (one f.write each).
RecordWrites(symbol, content) ==
    << <<"\n">> \o Separator \o <<"\n">>,
       Marker(symbol) \o <<"\n">>,
       <<"Timestamp: ">> \o Timestamp \o <<"\n">>,
       <<"Company Name: ">> \o content.metadata.company_name \o <<"\n">>,
       <<"Market Cap: ">> \o content.metadata.market_cap \o <<"\n">>,
       <<"Rating Link: ">> \o content.metadata.rating_link \o <<"\n">>,
       Dashes \o <<"\n">>,
       IF Populated(content.page_text)
       THEN <<"\n", "Page Text:", "\n">> \o content.page_text.s \o <<"\n">>
       ELSE <<>>,
       IF Populated(content.pdf_text)
       THEN <<"\n", "PDF Text:", "\n">> \o content.pdf_text.s \o <<"\n">>
       ELSE <<>>,
       Separator \o <<"\n">> >>

\* save_ratings opening the file with mode 'w'.
save_ratings_truncating(file, symbol, content, write) ==
    LET w == RecordWrites(symbol, content)
    IN  IF write = "open_fails" THEN [raised |-> TRUE, file |-> file]
        ELSE IF write = "write_fails"
        THEN [raised |-> TRUE, file |-> File(w[1] \o w[2])]
        ELSE [raised |-> FALSE, file |-> File(Join(w, <<>>))]

\* save_ratings: appends the record; "open_fails": open() raises and nothing is
\* written; "write_fails": a write raises after the first two reached the file.
\* Either error leaves save_ratings (it has no handler).
save_ratings(file, symbol, content, write) ==
    LET w == RecordWrites(symbol, content)
    IN  IF write = "open_fails" THEN [raised |-> TRUE, file |-> file]
        ELSE IF write = "write_fails"
        THEN [raised |-> TRUE, file |-> File(file.content \o w[1] \o w[2])]
        ELSE [raised |-> FALSE, file |-> File(file.content \o Join(w, <<>>))]

\* What get_credit_ratings_link returns: a link, or None (also on any error).
RcLinks == { None, Text(<<"https:", "/", "/", "www.crisil.com", "/", "ratings", "/", "1">>) }

\* What get_rating_page_text can return to collect_ratings.
RcEnvs ==
    { Env(NoResponse, NoDoc, NoRender, NoResponse, NoDoc),
      Env([k |-> "ok", ctype |-> <<"application/pdf">>],
          [opens |-> TRUE, pages |-> << Text(<<"p">>) >>], NoRender, NoResponse, NoDoc),
      Env([k |-> "ok", ctype |-> <<"application/pdf">>],
          [opens |-> TRUE, pages |-> <<>>], NoRender, NoResponse, NoDoc),
      Env([k |-> "ok", ctype |-> <<"text/html">>], NoDoc,
          [k |-> "ok", nodes |-> << Node("p", <<"a">>) >>, frame |-> Frame("nodiv", <<>>)],
          NoResponse, NoDoc) }

\* collect_ratings going on to save_ratings whatever retrieval returned.
no_content_never(retrieved) == FALSE

\* if not rating_link: continue
no_link(rating_link) == ~Populated(rating_link)
\* if not content: continue
no_content(retrieved) == retrieved.none

\* time.sleep(2) after every iteration that sent requests.
sleep_reached_after_requests(path) == path \in {"no_link", "no_content", "saved"}

\* Whether an iteration that ended by this path reached time.sleep(2), the
\* last statement of the loop body: every continue and an exception out of
\* save_ratings pass it by.
sleep_reached(path) == path = "saved"

NoIter == [valid |-> FALSE, symbol |-> <<>>, read |-> "ok", marked |-> FALSE,
           skipped |-> FALSE, link_called |-> FALSE, link_found |-> FALSE,
           retrieve_called |-> FALSE, content_found |-> FALSE,
           appended |-> FALSE, raised |-> FALSE, slept |-> FALSE]

RcIdle ==
    /\ ratings_file = NoFile
    /\ rc_input = <<>>
    /\ rc_run = "first"
    /\ rc_pc = "idle"
    /\ rc_todo = <<>>
    /\ rc_iter = NoIter
    /\ rc_clean = TRUE

\* No get_eligible_stocks run yet.
NoDiscovery == [priming |-> <<>>, listing |-> "none", symbols |-> <<>>]

\* filter_by_market_cap has not been applied.
NotFiltered == [called |-> FALSE,
                market_cap |-> [raised |-> FALSE, whole |-> 0, frac |-> 0],
                accepted |-> FALSE]
McIdle ==
    /\ mc_input = EmptyBlob
    /\ mc_out = NotFiltered

\* The collector just constructed, no cache file on disk.
ExIdle ==
    /\ cache_file = CacheAbsent
    /\ cache_mtime = 0
    /\ api_calls_count = 0
    /\ now = 0
    /\ requests_sent = 0
    /\ last_call = NoCall
    /\ prev_call = NoCall
    /\ listing_response = <<>>
    /\ ncalls = 0
    /\ ex_pc = "idle"
    /\ symbols = <<>>
    /\ eligible_stocks = <<>>
    /\ eligible_result = [returned |-> FALSE, rows |-> <<>>]
    /\ discovery = NoDiscovery

\* The two collect_ratings runs, and the two _save_to_cache callers.
Procs == {"p", "q"}

\* No concurrent collect_ratings run was started.
CcIdle ==
    /\ cc_pc = [p \in Procs |-> "idle"]
    /\ cc_todo = [p \in Procs |-> <<>>]
    /\ cc_ran = {}
    /\ cc_read_err = FALSE

\* No concurrent _save_to_cache call was made.
CwIdle ==
    /\ cw_pc = [p \in Procs |-> "idle"]
    /\ cw_symbol = [p \in Procs |-> <<>>]
    /\ cw_local = [p \in Procs |-> CacheAbsent]
    /\ cw_saved = NoEntries
    /\ cw_ran = {}
    /\ cw_nsaves = 0

\* BaseExchange.__init__: self.last_request_time = 0; no _rate_limit call yet.
RlIdle ==
    /\ rl_clock = 0
    /\ last_request_time = 0
    /\ rl_prev = 0
    /\ rl_ncalls = 0
    /\ rl_slept = 0

ExInit ==
    /\ cache_file \in InitCaches
    /\ cache_mtime \in InitMtimes(cache_file)
    /\ api_calls_count = 0
    /\ now = 0
    /\ requests_sent = 0
    /\ last_call = NoCall
    /\ prev_call = NoCall
    /\ listing_response = <<>>
    /\ ncalls = 0
    /\ ex_pc = "idle"
    /\ symbols = <<>>
    /\ eligible_stocks = <<>>
    /\ eligible_result = [returned |-> FALSE, rows |-> <<>>]
    /\ discovery = NoDiscovery
    /\ McIdle
    /\ RtIdle
    /\ RcIdle
    /\ CcIdle
    /\ CwIdle
    /\ RlIdle

\* One call of get_stock_details(symbol) and the bookkeeping of what it did.
DoCall(symbol, o) ==
    LET r == get_stock_details(cache_file, api_calls_count, symbol, now, o)
    IN  /\ cache_file' = r.file
        /\ cache_mtime' = IF cache_written(cache_file, r.kind) THEN now ELSE cache_mtime
        /\ api_calls_count' = r.count
        /\ requests_sent' = requests_sent + r.sent
        /\ last_call' = [valid |-> TRUE, symbol |-> symbol, time |-> now,
                         kind |-> r.kind, sent |-> r.sent, ret |-> r.ret,
                         count_before |-> api_calls_count, count_after |-> r.count]
        /\ prev_call' = last_call
        /\ ncalls' = ncalls + 1

\* Time passes.
Tick ==
    /\ now < MaxTime
    /\ now' = now + 1
    /\ UNCHANGED <<cache_file, cache_mtime, api_calls_count, requests_sent, last_call,
                   prev_call, listing_response, ncalls, ex_pc, symbols,
                   eligible_stocks, eligible_result, discovery, mc_vars, rt_vars, rc_vars,
                   cc_vars, cw_vars, rl_vars>>

\* A caller invokes get_stock_details(symbol) on its own.
CallGetStockDetails(symbol, o) ==
    /\ ex_pc = "idle"
    /\ ncalls < MaxCalls
    /\ DoCall(symbol, o)
    /\ UNCHANGED <<now, listing_response, ex_pc, symbols, eligible_stocks,
                   eligible_result, discovery, mc_vars, rt_vars, rc_vars,
                   cc_vars, cw_vars, rl_vars>>

\* _get_nse_cookies: two priming requests, each followed by a pause; the first
\* failing request ends it with False.  c gives each request's outcome.
CookieOutcomes == [base : {"ok", "err"}, market : {"ok", "err"}]
\* _get_nse_cookies trying the base page a second time when it fails.
get_nse_cookies_retry(c) ==
    IF c.base = "err" THEN [ok |-> FALSE, log |-> <<"base", "base">>]
    ELSE IF c.market = "err" THEN [ok |-> FALSE, log |-> <<"base", "sleep", "market">>]
    ELSE [ok |-> TRUE, log |-> <<"base", "sleep", "market", "sleep">>]

get_nse_cookies(c) ==
    IF c.base = "err" THEN [ok |-> FALSE, log |-> <<"base">>]
    ELSE IF c.market = "err" THEN [ok |-> FALSE, log |-> <<"base", "sleep", "market">>]
    ELSE [ok |-> TRUE, log |-> <<"base", "sleep", "market", "sleep">>]

\* One entry of the pre-open listing: its metadata is a mapping with a symbol
\* ("sym"), a mapping without one ("nosym"), absent ("nometa") or null.
Items ==
    { [m |-> "sym", s |-> x] : x \in ExSymbols }
    \cup { [m |-> "nosym", s |-> "A"], [m |-> "nometa", s |-> "A"],
           [m |-> "nullmeta", s |-> "A"] }

RECURSIVE SelectSymbols(_)
SelectSymbols(items) ==
    IF items = <<>> THEN <<>>
    ELSE IF Head(items).m = "sym" THEN <<Head(items).s>> \o SelectSymbols(Tail(items))
    ELSE SelectSymbols(Tail(items))

\* get_all_nse_stocks going on to the listing request without a session.
get_all_nse_stocks_unprimed(c, k, items) ==
    IF k = "err" THEN <<>>
    ELSE IF \E i \in 1..Len(items) : items[i].m = "nullmeta" THEN <<>>
    ELSE SelectSymbols(items)

\* get_all_nse_stocks: [] without a session, on a failed listing request
\* (k = "err": transport error, bad status, body not JSON), and when
\* item.get('metadata', {}) is null (the AttributeError is caught by the handler
\* of the whole function); else the symbols of the entries having one.
get_all_nse_stocks(c, k, items) ==
    IF ~get_nse_cookies(c).ok THEN <<>>
    ELSE IF k = "err" THEN <<>>
    ELSE IF \E i \in 1..Len(items) : items[i].m = "nullmeta" THEN <<>>
    ELSE SelectSymbols(items)

\* The exchange lists one more instrument (before the program asks).
ExchangeLists(item) ==
    /\ ex_pc = "idle"
    /\ ncalls = 0
    /\ ~eligible_result.returned
    /\ Len(listing_response) < MaxListing
    /\ listing_response' = Append(listing_response, item)
    /\ UNCHANGED <<cache_file, cache_mtime, api_calls_count, now, requests_sent,
                   last_call, prev_call, ncalls, ex_pc, symbols, eligible_stocks,
                   eligible_result, discovery, mc_vars, rt_vars, rc_vars,
                   cc_vars, cw_vars, rl_vars>>

\* get_eligible_stocks up to its loop: the session, then get_all_nse_stocks.
EligibleStart(c1, c2, k) ==
    /\ ex_pc = "idle"
    /\ ~eligible_result.returned
    /\ LET syms == IF get_nse_cookies(c1).ok
                   THEN get_all_nse_stocks(c2, k, listing_response)
                   ELSE <<>>
           first == [c |-> c1, ret |-> get_nse_cookies(c1)]
           second == [c |-> c2, ret |-> get_nse_cookies(c2)]
       IN  /\ discovery' =
                IF ~first.ret.ok
                THEN [priming |-> <<first>>, listing |-> "none", symbols |-> syms]
                ELSE IF ~second.ret.ok
                THEN [priming |-> <<first, second>>, listing |-> "none",
                      symbols |-> syms]
                ELSE [priming |-> <<first, second>>, listing |-> k, symbols |-> syms]
           /\ IF syms = <<>>
              THEN /\ eligible_result' = [returned |-> TRUE, rows |-> <<>>]
                   /\ UNCHANGED <<ex_pc, symbols, eligible_stocks>>
              ELSE /\ ex_pc' = "loop"
                   /\ symbols' = syms
                   /\ eligible_stocks' = <<>>
                   /\ eligible_result' = [returned |-> FALSE, rows |-> <<>>]
    /\ UNCHANGED <<cache_file, cache_mtime, api_calls_count, now, requests_sent,
                   last_call, prev_call, listing_response, ncalls, mc_vars, rt_vars, rc_vars,
                   cc_vars, cw_vars, rl_vars>>

\* One iteration of the loop of get_eligible_stocks over the next symbol.  An
\* AttributeError out of get_market_cap leaves the function (no handler).
EligibleStep(o) ==
    /\ ex_pc = "loop"
    /\ symbols # <<>>
    /\ LET symbol == Head(symbols)
           stock_data == get_stock_details(cache_file, api_calls_count, symbol, now, o).ret
       IN  /\ DoCall(symbol, o)
           /\ symbols' = Tail(symbols)
           /\ IF ~Truthy(stock_data)
              THEN UNCHANGED <<ex_pc, eligible_stocks>>
              ELSE IF get_market_cap(stock_data).raised
              THEN ex_pc' = "raised" /\ UNCHANGED eligible_stocks
              ELSE IF filter_by_market_cap(stock_data)
              THEN /\ eligible_stocks' =
                        Append(eligible_stocks,
                               [symbol |-> symbol,
                                market_cap |-> get_market_cap(stock_data)])
                   /\ UNCHANGED ex_pc
              ELSE UNCHANGED <<ex_pc, eligible_stocks>>
    /\ UNCHANGED <<now, listing_response, eligible_result, discovery, mc_vars, rt_vars, rc_vars,
                   cc_vars, cw_vars, rl_vars>>

\* The loop is over: return pd.DataFrame(eligible_stocks).
EligibleReturn ==
    /\ ex_pc = "loop"
    /\ symbols = <<>>
    /\ ex_pc' = "idle"
    /\ eligible_result' = [returned |-> TRUE, rows |-> eligible_stocks]
    /\ UNCHANGED <<cache_file, cache_mtime, api_calls_count, now, requests_sent,
                   last_call, prev_call, listing_response, ncalls, symbols,
                   eligible_stocks, discovery, mc_vars, rt_vars, rc_vars,
                   cc_vars, cw_vars, rl_vars>>

\* Calls of get_stock_details as time passes.
ExNext ==
    \/ Tick
    \/ \E symbol \in ExSymbols, o \in CallOutcomes : CallGetStockDetails(symbol, o)

\* One process run of get_eligible_stocks over what the exchange lists.
ElNext ==
    \/ \E item \in Items : ExchangeLists(item)
    \/ \E c1 \in CookieOutcomes, c2 \in CookieOutcomes, k \in {"ok", "err"} :
          EligibleStart(c1, c2, k)
    \/ \E o \in DetailOutcomes : EligibleStep(o)
    \/ EligibleReturn

SpecExchange == ExInit /\ [][ExNext]_vars

SpecEligible == ExInit /\ [][ElNext]_vars

(***************************************************************************)
(* filter_by_market_cap applied to one detail blob.                        *)
(***************************************************************************)
\* lastPrice values and issuedSize values (hi * CRORE + lo) around the band.
Prices == {0, 1, 99, 100, 101, 200}
Sizes == { Num(hi, lo) : hi \in {0, 1, 99, 100, 101}, lo \in {0, 1, 600000, 9999999} }
NoContainers == { NoMap, NullMap, NotAMap }
PriceInfos == NoContainers \cup { Map(f) : f \in {Missing, Null, Str, Num(0, 100)} }
SecurityInfos == NoContainers \cup { Map(f) : f \in {Missing, Null, Str, Num(1, 0)} }

McInputs ==
    { Detail(Num(0, p), n) : p \in Prices, n \in Sizes }
    \cup { [empty |-> FALSE, priceInfo |-> pi, securityInfo |-> si] :
             pi \in PriceInfos, si \in SecurityInfos }

McInit ==
    /\ mc_input \in McInputs
    /\ mc_out = NotFiltered
    /\ ExIdle
    /\ RtIdle
    /\ RcIdle
    /\ CcIdle
    /\ CwIdle
    /\ RlIdle

\* filter_by_market_cap(stock_data); an exception out of get_market_cap leaves
\* it as well (no handler), and nothing is accepted.
FilterByMarketCap ==
    /\ ~mc_out.called
    /\ mc_out' = [called |-> TRUE,
                  market_cap |-> get_market_cap(mc_input),
                  accepted |-> /\ ~get_market_cap(mc_input).raised
                               /\ filter_by_market_cap(mc_input)]
    /\ UNCHANGED <<mc_input, ex_vars, rt_vars, rc_vars,
                   cc_vars, cw_vars, rl_vars>>

McNext == FilterByMarketCap

SpecMarketCap == McInit /\ [][McNext]_vars

(***************************************************************************)
(* get_rating_page_text applied to one link in one environment.            *)
(***************************************************************************)
RtInit ==
    /\ rt_link \in RatingLinks
    /\ rt_env \in RtEnvs
    /\ rt_call = NotCalled
    /\ ExIdle
    /\ McIdle
    /\ RcIdle
    /\ CcIdle
    /\ CwIdle
    /\ RlIdle

GetRatingPageText ==
    /\ rt_call = NotCalled
    /\ rt_call' = get_rating_page_text(rt_link, rt_env)
    /\ UNCHANGED <<rt_link, rt_env, ex_vars, mc_vars, rc_vars,
                   cc_vars, cw_vars, rl_vars>>

RtNext == GetRatingPageText

SpecRetrieve == RtInit /\ [][RtNext]_vars

(***************************************************************************)
(* collect_ratings run on a frame, then run again on the same frame.       *)
(***************************************************************************)
RcInit ==
    /\ ratings_file = NoFile
    /\ rc_input \in InputFrames
    /\ rc_run = "first"
    /\ rc_pc = "idle"
    /\ rc_todo = <<>>
    /\ rc_iter = NoIter
    /\ rc_clean = TRUE
    /\ ExIdle
    /\ McIdle
    /\ RtIdle
    /\ CcIdle
    /\ CwIdle
    /\ RlIdle

\* collect_ratings(eligible_stocks) is entered: an empty frame returns at once.
CollectStart ==
    /\ \/ rc_pc = "idle" /\ rc_run' = rc_run
       \/ rc_pc \in {"done", "raised"} /\ rc_run = "first" /\ rc_run' = "second"
    /\ rc_pc' = IF rc_input = <<>> THEN "done" ELSE "loop"
    /\ rc_todo' = rc_input
    /\ rc_iter' = NoIter
    /\ UNCHANGED <<ratings_file, rc_input, rc_clean, ex_vars, mc_vars, rt_vars,
                   cc_vars, cw_vars, rl_vars>>

\* One iteration of the loop: the marker check, link discovery, retrieval and
\* save_ratings for the next row.
CollectIter(read, rating_link, e, write) ==
    /\ rc_pc = "loop"
    /\ rc_todo # <<>>
    /\ LET stock == Head(rc_todo)
           symbol == stock.symbol
           rated == is_stock_rated(ratings_file, symbol, read)
           retrieved == get_rating_page_text(rating_link.s, e).result
           content == [page_text |-> retrieved.page_text,
                       pdf_text |-> retrieved.pdf_text,
                       metadata |-> [symbol |-> symbol,
                                     company_name |-> stock.company_name,
                                     market_cap |-> stock.market_cap,
                                     rating_link |-> rating_link.s]]
           saved == save_ratings(ratings_file, symbol, content, write)
           it == [NoIter EXCEPT !.valid = TRUE, !.symbol = symbol,
                                !.read = IF ratings_file.exists THEN read ELSE "ok",
                                !.marked = /\ ratings_file.exists
                                           /\ Contains(ratings_file.content,
                                                       Marker(symbol))]
           linked == [it EXCEPT !.link_called = TRUE,
                                !.link_found = Populated(rating_link)]
           fetched == [linked EXCEPT !.retrieve_called = TRUE,
                                     !.content_found = ~retrieved.none]
       IN  IF rated
           THEN /\ rc_iter' = [it EXCEPT !.skipped = TRUE,
                                         !.slept = sleep_reached("skipped")]
                /\ rc_clean' = rc_clean
                /\ UNCHANGED <<ratings_file, rc_pc>>
           ELSE IF no_link(rating_link)
           THEN /\ rc_iter' = [linked EXCEPT !.slept = sleep_reached("no_link")]
                /\ rc_clean' = FALSE
                /\ UNCHANGED <<ratings_file, rc_pc>>
           ELSE IF no_content(retrieved)
           THEN /\ rc_iter' = [fetched EXCEPT !.slept = sleep_reached("no_content")]
                /\ rc_clean' = FALSE
                /\ UNCHANGED <<ratings_file, rc_pc>>
           ELSE IF saved.raised
           THEN /\ rc_iter' = [fetched EXCEPT !.raised = TRUE,
                                              !.slept = sleep_reached("save_raised")]
                /\ rc_clean' = FALSE
                /\ ratings_file' = saved.file
                /\ rc_pc' = "raised"
           ELSE /\ rc_iter' = [fetched EXCEPT !.appended = TRUE,
                                              !.slept = sleep_reached("saved")]
                /\ rc_clean' = (rc_clean /\ it.read = "ok")
                /\ ratings_file' = saved.file
                /\ UNCHANGED rc_pc
    /\ rc_todo' = Tail(rc_todo)
    /\ UNCHANGED <<rc_input, rc_run, ex_vars, mc_vars, rt_vars,
                   cc_vars, cw_vars, rl_vars>>

\* The loop is over: collect_ratings returns.
CollectReturn ==
    /\ rc_pc = "loop"
    /\ rc_todo = <<>>
    /\ rc_pc' = "done"
    /\ UNCHANGED <<ratings_file, rc_input, rc_run, rc_todo, rc_iter, rc_clean,
                   ex_vars, mc_vars, rt_vars,
                   cc_vars, cw_vars, rl_vars>>

RcNext ==
    \/ CollectStart
    \/ \E read \in {"ok", "err"}, rating_link \in RcLinks, e \in RcEnvs,
          write \in {"ok", "open_fails", "write_fails"} :
          CollectIter(read, rating_link, e, write)
    \/ CollectReturn

SpecCollect == RcInit /\ [][RcNext]_vars

(***************************************************************************)
(* Two collect_ratings runs (two processes, or two threads sharing one     *)
(* RatingsCollector) over the same ratings.txt and the same frame.  A run   *)
(* is the loop of lines 74-108; between _is_stock_rated (line 80) and       *)
(* save_ratings (line 105) it does link discovery and retrieval, which take *)
(* seconds, so the other run can take any number of steps in between.  The  *)
(* writes of one save_ratings call are taken as one step.                   *)
(***************************************************************************)
RaceInit ==
    /\ ratings_file = NoFile
    /\ rc_input \in InputFrames
    /\ rc_run = "first"
    /\ rc_pc = "idle"
    /\ rc_todo = <<>>
    /\ rc_iter = NoIter
    /\ rc_clean = TRUE
    /\ ExIdle
    /\ McIdle
    /\ RtIdle
    /\ CcIdle
    /\ CwIdle
    /\ RlIdle

\* Run p enters collect_ratings(eligible_stocks).
RaceStart(p) ==
    /\ cc_pc[p] = "idle"
    /\ cc_pc' = [cc_pc EXCEPT ![p] = IF rc_input = <<>> THEN "done" ELSE "check"]
    /\ cc_todo' = [cc_todo EXCEPT ![p] = rc_input]
    /\ cc_ran' = cc_ran \cup {p}
    /\ UNCHANGED <<cc_read_err, ex_vars, mc_vars, rt_vars, rc_vars, cw_vars, rl_vars>>

\* Run p at line 80: if self._is_stock_rated(symbol): continue
RaceCheck(p, read) ==
    /\ cc_pc[p] = "check"
    /\ cc_todo[p] # <<>>
    /\ LET symbol == Head(cc_todo[p]).symbol
       IN  /\ cc_read_err' = (cc_read_err \/ (ratings_file.exists /\ read = "err"))
           /\ IF is_stock_rated(ratings_file, symbol, read)
              THEN /\ cc_todo' = [cc_todo EXCEPT ![p] = Tail(@)]
                   /\ UNCHANGED cc_pc
              ELSE /\ cc_pc' = [cc_pc EXCEPT ![p] = "fetch"]
                   /\ UNCHANGED cc_todo
    /\ UNCHANGED <<cc_ran, ex_vars, mc_vars, rt_vars, rc_vars, cw_vars, rl_vars>>

\* Run p at lines 84-108 for a row that passed the marker check: link
\* discovery, retrieval and save_ratings.
RaceFetch(p, rating_link, e, write) ==
    /\ cc_pc[p] = "fetch"
    /\ LET stock == Head(cc_todo[p])
           symbol == stock.symbol
           retrieved == get_rating_page_text(rating_link.s, e).result
           content == [page_text |-> retrieved.page_text,
                       pdf_text |-> retrieved.pdf_text,
                       metadata |-> [symbol |-> symbol,
                                     company_name |-> stock.company_name,
                                     market_cap |-> stock.market_cap,
                                     rating_link |-> rating_link.s]]
           saved == save_ratings(ratings_file, symbol, content, write)
       IN  IF no_link(rating_link) \/ no_content(retrieved)
           THEN /\ cc_pc' = [cc_pc EXCEPT ![p] = "check"]
                /\ UNCHANGED ratings_file
           ELSE /\ ratings_file' = saved.file
                /\ cc_pc' = [cc_pc EXCEPT ![p] = IF saved.raised THEN "raised"
                                                 ELSE "check"]
    /\ cc_todo' = [cc_todo EXCEPT ![p] = Tail(@)]
    /\ UNCHANGED <<cc_ran, cc_read_err, rc_input, rc_run, rc_pc, rc_todo, rc_iter,
                   rc_clean, ex_vars, mc_vars, rt_vars, cw_vars, rl_vars>>

\* The loop of run p is over: collect_ratings returns.
RaceReturn(p) ==
    /\ cc_pc[p] = "check"
    /\ cc_todo[p] = <<>>
    /\ cc_pc' = [cc_pc EXCEPT ![p] = "done"]
    /\ UNCHANGED <<cc_todo, cc_ran, cc_read_err, ex_vars, mc_vars, rt_vars, rc_vars,
                   cw_vars, rl_vars>>

RaceNext ==
    \/ \E p \in Procs : RaceStart(p)
    \/ \E p \in Procs, read \in {"ok", "err"} : RaceCheck(p, read)
    \/ \E p \in Procs, rating_link \in RcLinks, e \in RcEnvs,
          write \in {"ok", "open_fails", "write_fails"} :
          RaceFetch(p, rating_link, e, write)
    \/ \E p \in Procs : RaceReturn(p)

SpecRace == RaceInit /\ [][RaceNext]_vars

(***************************************************************************)
(* Two callers of _save_to_cache over one cache file.  A call is two steps: *)
(* lines 80-88 load the document and set cache_data[symbol] in memory,      *)
(* lines 90-91 dump cache_data over the file.  The other caller can take    *)
(* any number of steps in between.  open(.., 'w') and json.dump succeed, as  *)
(* in get_stock_details above.                                              *)
(***************************************************************************)
MaxSaves == 3

\* The payloads saved: two that differ.
CwPayloads == { Detail(Num(0, 100), Num(1, 0)), Detail(Num(0, 100), Num(2, 0)) }

WritersInit ==
    /\ cache_file \in InitCaches
    /\ cache_mtime = 0
    /\ api_calls_count = 0
    /\ now = 0
    /\ requests_sent = 0
    /\ last_call = NoCall
    /\ prev_call = NoCall
    /\ listing_response = <<>>
    /\ ncalls = 0
    /\ ex_pc = "idle"
    /\ symbols = <<>>
    /\ eligible_stocks = <<>>
    /\ eligible_result = [returned |-> FALSE, rows |-> <<>>]
    /\ discovery = NoDiscovery
    /\ McIdle
    /\ RtIdle
    /\ RcIdle
    /\ CcIdle
    /\ CwIdle
    /\ RlIdle

\* Lines 80-88 of a call by writer p: cache_data is the loaded document with
\* the new entry set.  json.load of an unreadable file raises: the handler
\* logs, the call is over and nothing was written.
WriterLoad(p, symbol, data) ==
    /\ cw_pc[p] = "idle"
    /\ cw_nsaves < MaxSaves
    /\ cw_nsaves' = cw_nsaves + 1
    /\ cw_ran' = cw_ran \cup {p}
    /\ IF cache_file.kind = "corrupt"
       THEN UNCHANGED <<cw_pc, cw_symbol, cw_local>>
       ELSE /\ cw_pc' = [cw_pc EXCEPT ![p] = "loaded"]
            /\ cw_symbol' = [cw_symbol EXCEPT ![p] = symbol]
            /\ cw_local' = [cw_local EXCEPT
                              ![p] = save_to_cache(cache_file, symbol, data, now)]
    /\ UNCHANGED <<cw_saved, ex_vars, mc_vars, rt_vars, rc_vars, cc_vars, rl_vars>>

\* Lines 90-92 of that call: cache_data replaces the content of the file.
WriterDump(p) ==
    /\ cw_pc[p] = "loaded"
    /\ cache_file' = cw_local[p]
    /\ cw_saved' = [cw_saved EXCEPT ![cw_symbol[p]] = cw_local[p].entries[cw_symbol[p]]]
    /\ cw_pc' = [cw_pc EXCEPT ![p] = "idle"]
    /\ UNCHANGED <<cw_symbol, cw_local, cw_ran, cw_nsaves,
                   cache_mtime, api_calls_count, now, requests_sent, last_call,
                   prev_call, listing_response, ncalls, ex_pc, symbols,
                   eligible_stocks, eligible_result, discovery,
                   mc_vars, rt_vars, rc_vars, cc_vars, rl_vars>>

WritersNext ==
    \/ \E p \in Procs, symbol \in ExSymbols, data \in CwPayloads :
          WriterLoad(p, symbol, data)
    \/ \E p \in Procs : WriterDump(p)

SpecWriters == WritersInit /\ [][WritersNext]_vars

(***************************************************************************)
(* BaseExchange._rate_limit.  Time is counted in ticks, Resolution of them  *)
(* to the second.  time.time() is the clock, which does not run backwards;  *)
(* time.sleep(t) returns after t or later.                                  *)
(***************************************************************************)
Resolution == 2
MaxClock == 8
\* self.min_request_interval = 1  # seconds
min_request_interval == 1
Interval == min_request_interval * Resolution

\* _rate_limit without the sleep.
rate_limit_no_sleep(last, clock, over, d) ==
    [slept |-> 0, clock |-> clock + d, last_request_time |-> clock + d]

\* _rate_limit entered when the clock reads `clock` with the field at `last`:
\* sleeps for what is missing to the interval (and `over` ticks longer), and
\* records the clock read `d` ticks after that.
rate_limit(last, clock, over, d) ==
    LET current_time == clock
        time_since_last_request == current_time - last
        slept == IF time_since_last_request < Interval
                 THEN (Interval - time_since_last_request) + over
                 ELSE 0
    IN  [slept |-> slept,
         clock |-> clock + slept + d,
         last_request_time |-> clock + slept + d]

RlInit ==
    /\ RlIdle
    /\ ExIdle
    /\ McIdle
    /\ RtIdle
    /\ RcIdle
    /\ CcIdle
    /\ CwIdle

\* Time passes between two calls.
RlTick ==
    /\ rl_clock < MaxClock
    /\ rl_clock' = rl_clock + 1
    /\ UNCHANGED <<last_request_time, rl_prev, rl_ncalls, rl_slept,
                   ex_vars, mc_vars, rt_vars, rc_vars, cc_vars, cw_vars>>

\* One call of self._rate_limit().
RateLimit(over, d) ==
    /\ rl_ncalls < MaxCalls
    /\ LET r == rate_limit(last_request_time, rl_clock, over, d)
       IN  /\ rl_clock' = r.clock
           /\ last_request_time' = r.last_request_time
           /\ rl_slept' = r.slept
    /\ rl_prev' = last_request_time
    /\ rl_ncalls' = rl_ncalls + 1
    /\ UNCHANGED <<ex_vars, mc_vars, rt_vars, rc_vars, cc_vars, cw_vars>>

RlNext ==
    \/ RlTick
    \/ \E over \in 0..1, d \in 0..1 : RateLimit(over, d)

SpecRateLimit == RlInit /\ [][RlNext]_vars

(***************************************************************************)
(* Claims about ExchangeDataCollector.                                     *)
(***************************************************************************)
InBand(market_cap) == Le(Fixed(MIN_CAP), market_cap) /\ Le(market_cap, Fixed(MAX_CAP))

\* C1: every row get_eligible_stocks appends or returns has
\* 100 <= market_cap <= 10000; a detail whose computed market cap is outside
\* the band adds no row.
C1_RowsInBand ==
    /\ \A i \in 1..Len(eligible_stocks) : InBand(eligible_stocks[i].market_cap)
    /\ \A i \in 1..Len(eligible_result.rows) : InBand(eligible_result.rows[i].market_cap)
    /\ (/\ ex_pc = "loop"
        /\ last_call.valid
        /\ Truthy(last_call.ret)
        /\ ~InBand(get_market_cap(last_call.ret)))
       => \A i \in 1..Len(eligible_stocks) :
             eligible_stocks[i].market_cap # get_market_cap(last_call.ret)

\* C1 witness: a returned frame with a row, after a run whose last symbol had a
\* market cap above the band and was dropped.
C1_Witness ==
    /\ eligible_result.returned
    /\ Len(eligible_result.rows) = 1
    /\ last_call.kind = "fetched"
    /\ Truthy(last_call.ret)
    /\ Le(Fixed(MAX_CAP), get_market_cap(last_call.ret))
    /\ ~InBand(get_market_cap(last_call.ret))

\* C2 (as claimed): two consecutive calls of get_stock_details(s) within the
\* TTL, the first having obtained its payload from the endpoint or the cache,
\* send at most one request in total and return the same payload.
C2_CacheIdempotence ==
    (/\ last_call.valid
     /\ prev_call.valid
     /\ last_call.symbol = prev_call.symbol
     /\ last_call.time - prev_call.time <= TTL_DAYS
     /\ prev_call.kind \in {"fetched", "hit"})
    => /\ prev_call.sent + last_call.sent <= 1
       /\ last_call.ret = prev_call.ret

\* C3: api_calls_count never exceeds the ceiling, and a cache-miss call made
\* with the counter at the ceiling returns empty, sends nothing and leaves the
\* counter where it was.
C3_BudgetEnforcement ==
    /\ api_calls_count <= BudgetCeiling
    /\ (/\ last_call.valid
        /\ last_call.count_before = BudgetCeiling
        /\ last_call.kind # "hit")
       => /\ last_call.ret = EmptyBlob
          /\ last_call.sent = 0
          /\ last_call.count_after = BudgetCeiling
          /\ api_calls_count = BudgetCeiling

\* C3 witness: a call that missed the cache with the budget spent.
C3_Witness ==
    /\ last_call.valid
    /\ last_call.count_before = BudgetCeiling
    /\ last_call.kind = "blocked"
    /\ requests_sent >= BudgetCeiling

\* C4 (as claimed): the detail requests put on the wire in one process run,
\* failed ones included, never exceed the budget ceiling.
C4_RequestCeiling == requests_sent <= BudgetCeiling

(***************************************************************************)
(* Claims about get_rating_page_text.                                      *)
(***************************************************************************)
RtCalled == rt_call.stages # <<>>
RtLastStage == rt_call.stages[Len(rt_call.stages)]
RtInvoked(stage) == \E i \in 1..Len(rt_call.stages) : rt_call.stages[i] = stage

\* The first request was answered with a content type indicating a PDF.
RtDirectPdf ==
    /\ RtCalled
    /\ rt_env.r1.k = "ok"
    /\ \E i \in 1..Len(rt_env.r1.ctype) :
          rt_env.r1.ctype[i] \in {"application/pdf", "Application/PDF"}

RECURSIVE PagesWithNewlines(_)
\* The text of each page followed by a line break, in page order.
PagesWithNewlines(pages) ==
    IF pages = <<>> THEN <<>>
    ELSE Head(pages).s \o <<"\n">> \o PagesWithNewlines(Tail(pages))

RtAllPagesHaveText(doc) ==
    doc.opens /\ \A i \in 1..Len(doc.pages) : ~doc.pages[i].none

\* C5 (as claimed): after a PDF content type on the first request neither the
\* browser nor the embedded PDF fetch is invoked, and the call returns
\* page_text = None with pdf_text = each page's text plus a line break.
C5_AsClaimed ==
    RtDirectPdf
    => /\ ~RtInvoked("render")
       /\ ~RtInvoked("pdf_fetch")
       /\ rt_call.result = Result(None, Text(PagesWithNewlines(rt_env.doc1.pages)))

\* C5 (amended): as claimed when the body opens as a PDF and every page yields
\* text; otherwise the call returns None, still without the later stages.
C5_StagePrecedence ==
    RtDirectPdf
    => /\ rt_call.stages = <<"request", "pdf_parse">>
       /\ rt_call.pdf_url = None
       /\ IF RtAllPagesHaveText(rt_env.doc1)
          THEN rt_call.result = Result(None, Text(PagesWithNewlines(rt_env.doc1.pages)))
          ELSE rt_call.result = RNone

\* C5 witness: a two-page PDF served as 'Application/PDF'.
C5_Witness ==
    /\ RtDirectPdf
    /\ rt_env.r1.ctype = <<"Application/PDF">>
    /\ rt_env.doc1.pages = << Text(<<"p">>), Text(<<"q">>) >>
    /\ rt_call.result = Result(None, Text(<<"p", "\n", "q", "\n">>))

\* C9 (as claimed): a returned result has page_text or pdf_text populated.
C9_ResultPopulated ==
    (RtCalled /\ ~rt_call.result.none)
    => Populated(rt_call.result.page_text) \/ Populated(rt_call.result.pdf_text)

\* C10: a transport error in the first request, in the rendering or in the
\* embedded PDF fetch makes the call return None, whatever page text it had.
C10_TransportErrorIsNone ==
    RtCalled
    => /\ rt_env.r1.k = "neterr" => rt_call.result = RNone
       /\ (RtLastStage = "render" /\ rt_env.b.k # "ok") => rt_call.result = RNone
       /\ (RtInvoked("pdf_fetch") /\ rt_env.r2.k = "neterr") => rt_call.result = RNone
       /\ rt_call.fail \in {"request", "render", "pdf_fetch"} => rt_call.result = RNone

\* C10 witness: the page text was obtained, the embedded PDF request failed.
C10_Witness ==
    /\ RtCalled
    /\ RtLastStage = "pdf_fetch"
    /\ rt_env.r2.k = "neterr"
    /\ Populated(rt_call.page_text)
    /\ rt_call.result = RNone

(***************************************************************************)
(* Claims about collect_ratings.                                           *)
(***************************************************************************)
\* The records of the store written for exactly this symbol: the lines
\* "Stock: <symbol>".
RecordsOf(content, symbol) ==
    { i \in 1..Len(content) :
        /\ i + Len(symbol) + 1 <= Len(content)
        /\ SubSeq(content, i, i + Len(symbol) + 1) = Marker(symbol) \o <<"\n">> }

\* C6 (as claimed): after two runs on the same frame in which every read, link
\* discovery, retrieval and write succeeded, the store holds exactly one record
\* for each symbol of the frame.
C6_OneRecordPerSymbol ==
    (rc_run = "second" /\ rc_pc = "done" /\ rc_clean)
    => \A i \in 1..Len(rc_input) :
          Cardinality(RecordsOf(ratings_file.content, rc_input[i].symbol)) = 1

\* This step is the loop iteration of a row whose marker is in the store.
RcIterOfMarked ==
    /\ rc_pc = "loop"
    /\ rc_todo # <<>>
    /\ rc_todo' = Tail(rc_todo)
    /\ ratings_file.exists
    /\ Contains(ratings_file.content, Marker(Head(rc_todo).symbol))

RcSkips ==
    /\ rc_iter'.skipped
    /\ ~rc_iter'.link_called
    /\ ~rc_iter'.retrieve_called
    /\ ratings_file' = ratings_file

C8_FailSoft == rc_pc # "raised"

(***************************************************************************)
(* Further claims about get_rating_page_text.                              *)
(***************************************************************************)
\* The header value names the PDF media type, in either case.
RtCtypeIsPdf(ctype) ==
    \E i \in 1..Len(ctype) : ctype[i] \in {"application/pdf", "Application/PDF"}

\* Normalized text: no line break, no two spaces in a row, no space at either
\* end.
RtNormalized(s) ==
    /\ \A i \in 1..Len(s) : s[i] # "\n"
    /\ \A i \in 1..(Len(s) - 1) : ~(s[i] = " " /\ s[i + 1] = " ")
    /\ s # <<>> => (s[1] # " " /\ s[Len(s)] # " ")

\* The embedded PDF URL was fetched and answered with another content type.
RtMismatch ==
    /\ RtCalled
    /\ RtInvoked("pdf_fetch")
    /\ rt_env.r2.k = "ok"
    /\ ~RtCtypeIsPdf(rt_env.r2.ctype)

\* C11: when the embedded PDF URL is fetched successfully and its content type
\* is not PDF, the call returns a result (not None) holding the normalized
\* page text and pdf_text = None, and no PDF extraction is attempted.
C11_ContentTypeMismatch ==
    RtMismatch
    => /\ ~rt_call.result.none
       /\ ~rt_call.result.raised
       /\ rt_call.result.page_text = rt_call.page_text
       /\ ~rt_call.page_text.none
       /\ RtNormalized(rt_call.page_text.s)
       /\ rt_call.result.pdf_text = None
       /\ ~RtInvoked("pdf_parse")

\* C11 witness: a page with text whose embedded URL answered text/html.
C11_Witness ==
    /\ RtMismatch
    /\ rt_env.r2.ctype = <<"text/html">>
    /\ rt_call.page_text = Text(<<"a", " ", "b", " ", "c">>)
    /\ rt_call.result = Result(rt_call.page_text, None)

(***************************************************************************)
(* Further claims about the detail cache.                                  *)
(***************************************************************************)
\* This step is a call of get_stock_details.
ExCallStep == ncalls' = ncalls + 1

\* Before the step the cache file holds an entry for the symbol.
ExEntryPresent(symbol) ==
    cache_file.kind = "json" /\ cache_file.entries[symbol].present

\* ... and that entry is more than the TTL old at the time of the call.
ExEntryExpired(symbol) ==
    /\ ExEntryPresent(symbol)
    /\ now - cache_file.entries[symbol].timestamp > TTL_DAYS

\* C12: a call that finds an entry more than 2 days old does not serve it: it
\* goes on as with no entry, to the budget test (blocked at the ceiling,
\* nothing sent) and else to the network (one request), and what it returns is
\* empty or the payload just fetched.
C12_CacheTTL ==
    [][(ExCallStep /\ ExEntryExpired(last_call'.symbol))
       => /\ last_call'.kind # "hit"
          /\ IF api_calls_count >= BudgetCeiling
             THEN /\ last_call'.kind = "blocked"
                  /\ last_call'.sent = 0
                  /\ last_call'.ret = EmptyBlob
             ELSE /\ last_call'.kind \in {"neterr", "badjson", "fetched"}
                  /\ last_call'.sent = 1
                  /\ last_call'.kind # "fetched" => last_call'.ret = EmptyBlob]_vars

\* C12 witness: a call went to the network although the file holds a
\* non-empty entry for its symbol, which is older than the TTL.
C12_Witness ==
    /\ last_call.valid
    /\ last_call.kind = "neterr"
    /\ cache_file.kind = "json"
    /\ cache_file.entries[last_call.symbol].present
    /\ Truthy(cache_file.entries[last_call.symbol].data)
    /\ last_call.time - cache_file.entries[last_call.symbol].timestamp > TTL_DAYS

\* C13 (as claimed): an entry is served only if the file's modification time
\* and the entry's own timestamp are both within 2 days of the call.
C13_FileWideTTL ==
    (last_call.valid /\ last_call.kind = "hit")
    => /\ last_call.time - cache_mtime <= TTL_DAYS
       /\ last_call.time - cache_file.entries[last_call.symbol].timestamp <= TTL_DAYS

(***************************************************************************)
(* Claims about get_market_cap and filter_by_market_cap.                   *)
(***************************************************************************)
\* A container holding a numeric field.
ExNumeric(container) == container.t = "map" /\ container.f.t = "num"

\* A detail blob with a missing or malformed field.
ExMalformed(blob) == ~ExNumeric(blob.priceInfo) \/ ~ExNumeric(blob.securityInfo)

\* C14 (as claimed): for a detail blob with a missing or malformed field
\* get_market_cap returns 0 without raising, and get_eligible_stocks is not
\* aborted.
C14_MalformedIsZero ==
    /\ (last_call.valid /\ Truthy(last_call.ret) /\ ExMalformed(last_call.ret))
       => get_market_cap(last_call.ret) = [raised |-> FALSE, whole |-> 0, frac |-> 0]
    /\ ex_pc # "raised"

\* C15: for a well-formed blob with lastPrice p and issuedSize n,
\* get_market_cap is exactly (p * n) / 10,000,000 (whole + frac / CRORE with
\* 0 <= frac < CRORE), filter_by_market_cap accepts iff 100 <= it <= 10000,
\* and p = 100, n = 600000 gives 6, which is excluded.
C15_MarketCapBand ==
    (mc_out.called /\ ~ExMalformed(mc_input))
    => LET p == mc_input.priceInfo.f.lo
           n == mc_input.securityInfo.f
           mc == mc_out.market_cap
       IN  /\ ~mc.raised
           /\ mc.frac >= 0
           /\ mc.frac < CRORE
           /\ (mc.whole - p * n.hi) * CRORE + mc.frac = p * n.lo
           /\ mc_out.accepted
              <=> /\ mc.whole >= MIN_CAP
                  /\ mc.whole < MAX_CAP \/ (mc.whole = MAX_CAP /\ mc.frac = 0)
           /\ (p = 100 /\ n = Num(0, 600000))
              => (mc.whole = 6 /\ mc.frac = 0 /\ ~mc_out.accepted)

\* C15 witness: 100 * 1,000,000,000 is 10000 crores, the upper bound, and is
\* accepted.
C15_Witness ==
    /\ mc_out.called
    /\ mc_input = Detail(Num(0, 100), Num(100, 0))
    /\ mc_out.market_cap = [raised |-> FALSE, whole |-> MAX_CAP, frac |-> 0]
    /\ mc_out.accepted

(***************************************************************************)
(* Claims about symbol discovery.                                          *)
(***************************************************************************)
\* The requests of a priming call, in the order issued.
ExRequests(log) == SelectSeq(log, LAMBDA ev : ev # "sleep")

\* C16: every _get_nse_cookies call requests the base page first and the
\* market-data page second, each at most once, pauses after each request that
\* succeeded, stops at the first failed request with False (no later request,
\* no pause, no retry) and returns True exactly when both succeeded.
C16_PrimingOrder ==
    \A i \in 1..Len(discovery.priming) :
       LET c == discovery.priming[i].c
           ok == discovery.priming[i].ret.ok
           log == discovery.priming[i].ret.log
       IN  /\ ExRequests(log) \in { <<"base">>, <<"base", "market">> }
           /\ c.base = "err" => (log = <<"base">> /\ ~ok)
           /\ c.base = "ok" => (Len(log) >= 3 /\ SubSeq(log, 1, 3) = <<"base", "sleep", "market">>)
           /\ (c.base = "ok" /\ c.market = "err") => (Len(log) = 3 /\ ~ok)
           /\ (c.base = "ok" /\ c.market = "ok")
              => (log = <<"base", "sleep", "market", "sleep">> /\ ok)
           /\ ok => (c.base = "ok" /\ c.market = "ok")

\* C16 witness: get_eligible_stocks primed the session, then the priming call
\* of get_all_nse_stocks failed at the market-data page.
C16_Witness ==
    /\ Len(discovery.priming) = 2
    /\ discovery.priming[1].ret.ok
    /\ discovery.priming[2].c = [base |-> "ok", market |-> "err"]
    /\ ~discovery.priming[2].ret.ok
    /\ eligible_result.returned

\* The symbols of the entries of a listing that carry one, in response order.
ExListedSymbols(items) ==
    LET having == SelectSeq(items, LAMBDA item : item.m = "sym")
    IN  [i \in 1..Len(having) |-> having[i].s]

\* C17 (as claimed): after a listing request that succeeded, the symbols
\* get_all_nse_stocks returned are those of the listed entries that carry a
\* symbol, in response order, whatever the other entries look like.
C17_SymbolsOfListing ==
    discovery.listing = "ok" => discovery.symbols = ExListedSymbols(listing_response)

(***************************************************************************)
(* get_rating_page_text and its caller.                                    *)
(***************************************************************************)
\* The body pdfplumber was given: that of the embedded PDF, or of the link.
RtParsedDoc == IF RtInvoked("pdf_fetch") THEN rt_env.doc2 ELSE rt_env.doc1

\* C18: no exception leaves get_rating_page_text: a failed request, a browser
\* that does not launch or render, a body that does not open as a PDF and a
\* PDF page without text all end in None being returned.
C18_NeverRaises ==
    RtCalled
    => /\ ~rt_call.result.raised
       /\ rt_call.fail \in {"request", "render", "pdf_fetch", "parse"}
          => rt_call.result = RNone
       /\ (RtLastStage = "render" /\ rt_env.b.k \in {"launch_err", "goto_err"})
          => rt_call.result = RNone
       /\ (RtLastStage = "pdf_parse" /\ ~RtAllPagesHaveText(RtParsedDoc))
          => rt_call.result = RNone

\* C18 witness: the page text was obtained, the embedded PDF opened and one
\* of its pages had no text.
C18_Witness ==
    /\ RtCalled
    /\ RtLastStage = "pdf_parse"
    /\ RtInvoked("pdf_fetch")
    /\ rt_env.doc2.opens
    /\ \E i \in 1..Len(rt_env.doc2.pages) : rt_env.doc2.pages[i].none
    /\ Populated(rt_call.page_text)
    /\ rt_call.result = RNone

(***************************************************************************)
(* Frame conditions of get_stock_details.                                  *)
(***************************************************************************)
\* C19 (as claimed): a call that finds a present, non-expired entry for its
\* symbol returns that entry's payload, sends no request and leaves the
\* counter and the cache file as they were, whatever the counter is.
C19_HitNoSideEffects ==
    [][(/\ ExCallStep
        /\ ExEntryPresent(last_call'.symbol)
        /\ ~ExEntryExpired(last_call'.symbol))
       => /\ last_call'.ret = cache_file.entries[last_call'.symbol].data
          /\ last_call'.sent = 0
          /\ api_calls_count' = api_calls_count
          /\ cache_file' = cache_file]_vars

\* C20 (as claimed): a permitted, successful fetch of s adds one to the
\* counter, leaves in the cache file an entry for s with the payload returned
\* and the time of the call, and leaves the other symbols' entries alone.
C20_FetchWritesEntry ==
    [][(ExCallStep /\ last_call'.kind = "fetched")
       => /\ api_calls_count' = api_calls_count + 1
          /\ cache_file'.kind = "json"
          /\ cache_file'.entries[last_call'.symbol] =
                [present |-> TRUE, timestamp |-> now, data |-> last_call'.ret]
          /\ \A other \in ExSymbols \ {last_call'.symbol} :
                cache_file'.entries[other] = cache_file.entries[other]]_vars

(***************************************************************************)
(* Claims about get_eligible_stocks.                                       *)
(***************************************************************************)
RECURSIVE IsSubseq(_, _)
\* a is b with some elements left out.
IsSubseq(a, b) ==
    IF a = <<>> THEN TRUE
    ELSE IF b = <<>> THEN FALSE
    ELSE IF Head(a) = Head(b) THEN IsSubseq(Tail(a), Tail(b))
    ELSE IsSubseq(a, Tail(b))

\* The symbols of the rows appended so far.
ExRowSymbols == [i \in 1..Len(eligible_stocks) |-> eligible_stocks[i].symbol]

\* get_eligible_stocks has ended, by returning or by an exception.
ExRunEnded == eligible_result.returned \/ ex_pc = "raised"

\* C21 (as claimed): the calls of get_stock_details made so far are those of
\* the first listed symbols, one each and in listing order; when the run has
\* ended every listed symbol has had its call; the rows are a subsequence of
\* the listing; a call that returned empty adds no row.
C21_OncePerSymbol ==
    /\ [](/\ ncalls = Len(discovery.symbols) - Len(symbols)
          /\ ncalls > 0 => last_call.symbol = discovery.symbols[ncalls]
          /\ IsSubseq(ExRowSymbols, SubSeq(discovery.symbols, 1, ncalls))
          /\ ExRunEnded => ncalls = Len(discovery.symbols))
    /\ [][(ExCallStep /\ ~Truthy(last_call'.ret))
          => eligible_stocks' = eligible_stocks]_vars

\* The last priming call made failed.
ExSessionFailed ==
    /\ discovery.priming # <<>>
    /\ ~discovery.priming[Len(discovery.priming)].ret.ok

\* C22: when a priming call fails, no listing request is sent, no symbol is
\* obtained, get_eligible_stocks returns an empty frame, and no detail call
\* or request was made: the counter and the cache file are as at the start.
C22_SessionFailureHalts ==
    ExSessionFailed
    => /\ discovery.listing = "none"
       /\ discovery.symbols = <<>>
       /\ eligible_result = [returned |-> TRUE, rows |-> <<>>]
       /\ ex_pc = "idle"
       /\ ncalls = 0
       /\ requests_sent = 0
       /\ api_calls_count = 0
       /\ cache_file \in InitCaches
       /\ cache_mtime \in InitMtimes(cache_file)

\* C22 witness: the exchange lists a symbol, get_eligible_stocks primed the
\* session, and the priming of get_all_nse_stocks failed at the base page.
C22_Witness ==
    /\ ExSessionFailed
    /\ Len(discovery.priming) = 2
    /\ discovery.priming[2].c.base = "err"
    /\ \E i \in 1..Len(listing_response) : listing_response[i].m = "sym"
    /\ eligible_result.returned

(***************************************************************************)
(* Further claims about collect_ratings.                                   *)
(***************************************************************************)
\* The earlier content is a prefix of the later content.
IsPrefix(a, b) == Len(a) <= Len(b) /\ SubSeq(b, 1, Len(a)) = a

\* This step is a loop iteration of collect_ratings.
RcIterStep == rc_pc = "loop" /\ rc_todo # <<>> /\ rc_todo' = Tail(rc_todo)

\* The head of a record written for this symbol.
RecordHead(symbol) == <<"\n">> \o Separator \o <<"\n">> \o Marker(symbol) \o <<"\n">>

\* C23: in every step of every run the store only grows at its end, and what
\* an iteration appends begins with the record head of the row it is visiting
\* (rows are visited in input order, so records appear in input order).
C23_AppendOnly ==
    [][/\ IsPrefix(ratings_file.content, ratings_file'.content)
       /\ ratings_file.exists => ratings_file'.exists
       /\ ratings_file' # ratings_file
          => /\ RcIterStep
             /\ IsPrefix(ratings_file.content \o RecordHead(Head(rc_todo).symbol),
                         ratings_file'.content)]_vars

\* C23 witness: a second record was appended behind a first one.
C23_Witness ==
    /\ rc_iter.appended
    /\ Cardinality({ i \in 1..Len(ratings_file.content) :
                       ratings_file.content[i] = "Stock: " }) >= 2

\* C24: an iteration changes the store only if link discovery returned a link
\* and retrieval returned a result; when link discovery returns none,
\* retrieval is not invoked and the store is unchanged; when retrieval returns
\* none the store is unchanged.
C24_AppendNeedsContent ==
    [][RcIterStep
       => /\ ratings_file' # ratings_file
             => /\ rc_iter'.link_called /\ rc_iter'.link_found
                /\ rc_iter'.retrieve_called /\ rc_iter'.content_found
          /\ rc_iter'.appended
             => (rc_iter'.link_found /\ rc_iter'.content_found)
          /\ (rc_iter'.link_called /\ ~rc_iter'.link_found)
             => (~rc_iter'.retrieve_called /\ ratings_file' = ratings_file)
          /\ (rc_iter'.retrieve_called /\ ~rc_iter'.content_found)
             => ratings_file' = ratings_file]_vars

\* C24 witness: retrieval was invoked on a link and returned none; the
\* iteration appended nothing to the record already in the store.
C24_Witness ==
    /\ rc_iter.valid
    /\ rc_iter.link_found
    /\ rc_iter.retrieve_called
    /\ ~rc_iter.content_found
    /\ ~rc_iter.appended
    /\ Cardinality({ i \in 1..Len(ratings_file.content) :
                       ratings_file.content[i] = "Stock: " }) = 1

\* C25 (as claimed): every iteration that issued network requests (link
\* discovery or retrieval) and goes on to the next entity pauses first.
C25_AsClaimed ==
    (rc_iter.valid /\ rc_iter.link_called /\ ~rc_iter.raised) => rc_iter.slept

\* C25 (amended): an iteration pauses exactly when it appended its record; an
\* entity skipped as rated, one without link and one without content are
\* followed by the next entity without pause.
C25_PauseAfterAppend ==
    rc_iter.valid
    => /\ rc_iter.slept <=> rc_iter.appended
       /\ rc_iter.skipped => ~rc_iter.slept
       /\ (rc_iter.link_called /\ ~rc_iter.link_found) => ~rc_iter.slept
       /\ (rc_iter.retrieve_called /\ ~rc_iter.content_found) => ~rc_iter.slept

\* C25 witness: an iteration appended its record and paused.
C25_Witness ==
    /\ rc_iter.valid
    /\ rc_iter.appended
    /\ rc_iter.slept
    /\ RecordsOf(ratings_file.content, rc_iter.symbol) # {}

RtOrigin(url) == SubSeq(url, 1, 4)
RtAbsolute(url) == url # <<>> /\ url[1] \in {"http:", "https:"}
RtViewer(url) ==
    \E i \in 1..Len(url) :
       i + 4 <= Len(url)
       /\ SubSeq(url, i, i + 4) = <<"/", "Rating", "/", "ShowRationalReportFilePdf", "/">>

\* C26 (as claimed): the URL fetched for the embedded PDF is, for a frame
\* source matching the viewer pattern, the download template with the
\* source's last path segment on the origin of the rating link; for any other
\* source that is not absolute, with or without a leading slash, a URL on
\* that origin whose path is the source; for an absolute one, the source.
C26_UrlResolution ==
    (RtCalled /\ RtInvoked("pdf_fetch"))
    => LET src == rt_env.b.frame.src
           url == rt_call.pdf_url.s
       IN  IF RtViewer(src)
           THEN url = RtOrigin(rt_link)
                      \o <<"/", "Rating", "/", "GetRationalReportFilePdf?Id=">>
                      \o <<src[Len(src)]>>
           ELSE IF RtAbsolute(src) THEN url = src
           ELSE /\ RtOrigin(url) = RtOrigin(rt_link)
                /\ Len(url) > 4
                /\ url[5] = "/"
                /\ IsPrefix(src, SubSeq(url, 5, Len(url)))
                   \/ IsPrefix(src, SubSeq(url, 6, Len(url)))

(***************************************************************************)
(* Claims about concurrent use.                                            *)
(***************************************************************************)
\* Some symbol has two records in the store.
CcDuplicate ==
    \E i \in 1..Len(rc_input) :
       Cardinality(RecordsOf(ratings_file.content, rc_input[i].symbol)) >= 2

\* The rows of the frame have pairwise different symbols.
CcDistinctRows ==
    \A i, j \in 1..Len(rc_input) :
       rc_input[i].symbol = rc_input[j].symbol => i = j

\* C28 (as claimed, second half): when only one collect_ratings run has been
\* started, no symbol ever has two records in the store.
C28_SingleRunNoDuplicates == Cardinality(cc_ran) <= 1 => ~CcDuplicate

\* C28 (first half, to be refuted): two runs over a frame of distinct symbols
\* in which every read of the store succeeded leave no symbol with two
\* records.  SpecRace violates it: both runs pass the marker check before
\* either appends.
C28_RaceFree ==
    (CcDistinctRows /\ ~cc_read_err /\ \A p \in Procs : cc_pc[p] # "raised")
    => ~CcDuplicate

\* C28 (what does hold of a single run): with the store readable at every
\* check, or with rows of pairwise different symbols, one run never writes a
\* second record for a symbol.
C28_SingleRunReadable ==
    (Cardinality(cc_ran) <= 1 /\ (~cc_read_err \/ CcDistinctRows)) => ~CcDuplicate

\* The entry some completed save wrote for a symbol is not in the file.
CwLost(s) == cw_saved[s].present /\ cache_file.entries[s] # cw_saved[s]

C30_Spacing ==
    [][/\ last_request_time' >= last_request_time
       /\ (rl_ncalls' = rl_ncalls + 1 /\ rl_ncalls >= 1)
          => last_request_time' - last_request_time >= Interval]_vars

\* A second or later call came before the interval was over, slept, and
\* recorded a value later than the one before it.
C30_Witness ==
    /\ rl_ncalls >= 2
    /\ rl_slept > 0
    /\ last_request_time - rl_prev >= Interval

====
